---- MODULE Spec2Model ----
(***************************************************************************)
(* Order execution and position accounting of FutureBot:                   *)
(*   TradingService (services/trading_service.py),                         *)
(*   PaperTradingEngine (services/paper_trading_engine.py),                *)
(*   OrderRepository / PositionRepository (repositories/).                 *)
(*                                                                         *)
(* Decimal values are fixed-point integers.  Python's Decimal adds and     *)
(* multiplies exactly, so the three units below are chosen such that every *)
(* product the code forms is again an integer of the model:                *)
(*   prices      in tenths of a dollar    (Px),                            *)
(*   quantities  in tenths of a coin      (Qty),                           *)
(*   money       in cents = price unit x quantity unit   (Usd).            *)
(* An Optional[T] attribute is None (the empty tuple) or <<v>>.            *)
(***************************************************************************)
EXTENDS Integers, Sequences, FiniteSets, TLC

VARIABLES
    paper,          \* settings.ENABLE_PAPER_TRADING
    balance,        \* paper_trading_engine.balance            (cents)
    positions,      \* paper_trading_engine.positions: symbol -> Position
    orders,         \* the orders table; an order's id is its index
    positionRows,   \* the positions table; a row's id is its index
    last,           \* the most recent call of the service: arguments, outcome, state before
    inflight,       \* the create_order calls that are suspended at an await, by request
    refreshing      \* the update_positions_prices call that is suspended at an await

vars == <<paper, balance, positions, orders, positionRows, last, inflight, refreshing>>

----------------------------------------------------------------------------
(* Units and Optional values *)

Px(dollars) == dollars * 10
Qty(tenths) == tenths
Usd(dollars) == dollars * 100

None == << >>
Some(v) == <<v>>
Val(opt) == opt[1]

\* Decimal division: the quotient is rounded half-even to the context
\* precision; the model rounds the same way at its own resolution.
DecDiv(n, d) ==
    LET q == n \div d
        r == n % d
    IN  IF 2 * r < d THEN q
        ELSE IF 2 * r > d THEN q + 1
        ELSE IF q % 2 = 0 THEN q ELSE q + 1

----------------------------------------------------------------------------
(* Configuration *)

MAX_POSITION_SIZE_USD == 1000
MAX_OPEN_POSITIONS == 3
InitialBalance == 10000
StopAfterAttempt == 3      \* @retry(stop=stop_after_attempt(3)) of get_ticker

----------------------------------------------------------------------------
(* Bounds and input sets *)

MaxOrders == 2
MaxLedgerOrders == 2
MaxRiskOrders == 4
MaxStoreOrders == 1
MaxPositionRows == 3
MaxBoundaryOrders == 2
MaxRefreshOrders == 2
MaxRequests == 2
MaxActiveOrders == 2
MaxPagedOrders == 2
MaxCloseOrders == 3
MaxPriceOrders == 1
MaxFrameOrders == 2
MaxAccountingOrders == 2
MaxCloseTick == 2
MaxInterleavedOrders == 2
MaxRetryOrders == 2
MaxCapOrders == 4
MaxPersistOrders == 2

Symbols == {"BTCUSDT", "ETHUSDT"}
RiskSymbols == {"BTCUSDT", "ETHUSDT", "SOLUSDT"}
CapSymbols == RiskSymbols \cup {"XRPUSDT"}
BoundarySymbols == {"BTCUSDT"}
Sides == {"buy", "sell"}
Quantities == {Qty(1), Qty(2)}
LimitPrice == Px(6000)

\* (order_type, price) as submitted
OrderKinds ==
    { <<"market", None>>, <<"limit", None>>, <<"limit", Some(LimitPrice)>>,
      <<"stop_market", None>> }
ServiceKinds == { <<"market", None>>, <<"limit", Some(LimitPrice)>> }
RiskKinds == { <<"limit", Some(LimitPrice)>> }
MarketKinds == { <<"market", None>> }

\* get_ticker: the quote's lastPrice, or the fetch failed after its retries.
\* The quotes are multiples of $200, where the 0.05% slippage is exact in
\* the price unit.
Quotes == {Px(50000), Px(51000)}
Tickers == {None} \cup {Some(q) : q \in Quotes}
RiskTickers == {Some(Px(50000))}
\* market prices on either side of the limit price
PriceQuotes == {Px(4000), Px(5000), Px(6000), Px(50000), Px(51000)}
PriceTickers == {Some(Px(4000)), Some(Px(50000))}
PriceLimits == {None, Some(Px(5000)), Some(LimitPrice)}
OrderTypes == {"market", "limit", "stop_market", "stop_limit"}
\* the optional symbol argument of the queries; "" is a str that "if symbol:" skips
SymbolFilters == {None, Some("")} \cup {Some(symbol) : symbol \in Symbols}
\* the optional status argument of get_all
StatusFilters == {None, Some("pending")}
\* the symbol argument of the paged query
PageSymbolFilters == {None, Some("BTCUSDT")}
Skips == 0..2
Limits == 1..2
\* place_order: the exchange's order id, or the call failed
\* what the exchange answers to the successive requests of one get_ticker call
AttemptOutcomes == [1..(StopAfterAttempt + 1) -> {None, Some(Px(50000))}]
PlaceResults == {None, Some("exchange-id")}

----------------------------------------------------------------------------
(* models/order.py *)

PENDING == "pending"
FILLED == "filled"
PARTIALLY_FILLED == "partially_filled"
CANCELLED == "cancelled"
REJECTED == "rejected"
EXPIRED == "expired"
TerminalStatuses == {FILLED, PARTIALLY_FILLED, REJECTED, CANCELLED, EXPIRED}

\* Order(...) as built by create_order: attributes not passed are unset
\* until the INSERT applies the column defaults.
NewOrder(symbol, side, order_type, quantity, price) ==
    [ symbol |-> symbol, side |-> side, order_type |-> order_type,
      quantity |-> quantity, price |-> price,
      status |-> None, filled_quantity |-> None,
      average_fill_price |-> None, filled_at |-> None,
      exchange_order_id |-> None, notes |-> None,
      is_paper_trading |-> paper ]

----------------------------------------------------------------------------
(* models/position.py *)

LONG == "long"
SHORT == "short"

\* A Position(...) that is LONG whatever the order's side.
NewPositionAlwaysLong(symbol, side, quantity, execution_price) ==
    [ symbol |-> symbol, side |-> LONG, quantity |-> quantity,
      entry_price |-> execution_price, current_price |-> Some(execution_price),
      leverage |-> 1, unrealized_pnl |-> None, realized_pnl |-> None,
      is_open |-> None, closed_at |-> None ]

\* Position(...) as built by the engine: realized_pnl and unrealized_pnl are
\* not passed, and the column defaults apply only on INSERT, which never
\* happens for the engine's positions: both read None.
NewPosition(symbol, side, quantity, execution_price) ==
    [ symbol |-> symbol, side |-> side, quantity |-> quantity,
      entry_price |-> execution_price, current_price |-> Some(execution_price),
      leverage |-> 1, unrealized_pnl |-> None, realized_pnl |-> None,
      is_open |-> None, closed_at |-> None ]

NoPositions == [s \in {} |-> None]
Put(f, k, v) == [x \in DOMAIN f \cup {k} |-> IF x = k THEN v ELSE f[x]]
Del(f, k) == [x \in DOMAIN f \ {k} |-> f[x]]

\* the sequences that list every element of S once
Orderings(S) ==
    {seq \in [1..Cardinality(S) -> S] : \A i, j \in 1..Cardinality(S) : seq[i] = seq[j] => i = j}

----------------------------------------------------------------------------
(* services/paper_trading_engine.py *)

\* An execution price without slippage.
CalculateExecutionPriceAtMarket(order_type, side, market_price, limit_price) ==
    IF order_type = "limit" /\ limit_price = None
    THEN [raised |-> Some("Limit orders require a price"), value |-> 0]
    ELSE IF order_type = "limit"
    THEN [raised |-> None, value |-> Val(limit_price)]
    ELSE [raised |-> None, value |-> market_price]

\* _calculate_execution_price: [raised, value].  1 + 0.0005 = 2001/2000.
CalculateExecutionPrice(order_type, side, market_price, limit_price) ==
    IF order_type = "market" THEN
        IF side = "buy"
        THEN [raised |-> None, value |-> (market_price * 2001) \div 2000]
        ELSE [raised |-> None, value |-> (market_price * 1999) \div 2000]
    ELSE IF order_type = "limit" THEN
        IF limit_price = None
        THEN [raised |-> Some("Limit orders require a price"), value |-> 0]
        ELSE IF side = "buy"
        THEN [raised |-> None,
              value |-> IF Val(limit_price) <= market_price
                        THEN Val(limit_price) ELSE market_price]
        ELSE [raised |-> None,
              value |-> IF Val(limit_price) >= market_price
                        THEN Val(limit_price) ELSE market_price]
    ELSE [raised |-> None, value |-> market_price]

\* "existing_position.realized_pnl += pnl": None + Decimal raises TypeError.
AddRealized(position, pnl) ==
    IF position.realized_pnl = None
    THEN [raised |-> Some("unsupported operand type(s) for +=: 'NoneType' and 'decimal.Decimal'"),
          position |-> position]
    ELSE [raised |-> None,
          position |-> [position EXCEPT !.realized_pnl = Some(Val(@) + pnl)]]

\* An add to a position that also books a realized P&L of zero.
AddToPositionBookingPnl(position, order_quantity, execution_price) ==
    [position EXCEPT
        !.quantity = @ + order_quantity,
        !.realized_pnl = Some(0)]

\* _update_positions, BUY with an existing position (lines 166-175): the
\* quantity is increased first, the average is computed from the increased
\* quantity.
AddToPosition(position, order_quantity, execution_price) ==
    LET quantity == position.quantity + order_quantity
        total_value == position.entry_price * quantity
        new_value == execution_price * order_quantity
    IN  [position EXCEPT
            !.quantity = quantity,
            !.entry_price = DecDiv(total_value + new_value, quantity + order_quantity)]

\* _update_positions: the ledger as the call leaves it, also when it raises:
\* [balance, positions, raised, pnl], pnl the local of the close branches.
UpdatePositions(bal, poss, order, execution_price) ==
    LET symbol == order.symbol
        exists == symbol \in DOMAIN poss
    IN
    IF order.side = "buy" THEN
        [ balance |-> bal - execution_price * order.quantity,
          positions |->
              IF exists
              THEN Put(poss, symbol, AddToPosition(poss[symbol], order.quantity, execution_price))
              ELSE Put(poss, symbol, NewPosition(symbol, LONG, order.quantity, execution_price)),
          raised |-> None, pnl |-> None ]
    ELSE IF order.side = "sell" THEN
        IF exists THEN
            IF order.quantity >= poss[symbol].quantity THEN
                \* close entire position
                LET pos == poss[symbol]
                    pnl == (execution_price - pos.entry_price) * pos.quantity
                    bal1 == bal + execution_price * pos.quantity
                    added == AddRealized(pos, pnl)
                IN  IF added.raised # None
                    THEN [ balance |-> bal1, positions |-> poss,
                           raised |-> added.raised, pnl |-> Some(pnl) ]
                    ELSE [ balance |-> bal1, positions |-> Del(poss, symbol),
                           raised |-> None, pnl |-> Some(pnl) ]
            ELSE
                \* partial close
                LET pos == [poss[symbol] EXCEPT !.quantity = @ - order.quantity]
                    pnl == (execution_price - pos.entry_price) * order.quantity
                    bal1 == bal + execution_price * order.quantity
                    added == AddRealized(pos, pnl)
                IN  [ balance |-> bal1, positions |-> Put(poss, symbol, added.position),
                      raised |-> added.raised, pnl |-> Some(pnl) ]
        ELSE
            [ balance |-> bal + execution_price * order.quantity,
              positions |-> Put(poss, symbol, NewPosition(symbol, SHORT, order.quantity, execution_price)),
              raised |-> None, pnl |-> None ]
    ELSE [ balance |-> bal, positions |-> poss, raised |-> None, pnl |-> None ]

\* An except branch that records the reason and leaves the status.
RejectedStatusKept(order, reason) ==
    [order EXCEPT !.notes = Some(reason)]

\* The except branch of execute_order (lines 101-110).
Rejected(order, reason) ==
    [order EXCEPT !.status = REJECTED, !.notes = Some(reason)]

\* An execute_order that marks the order FILLED and records no fill details.
ExecuteOrderFillUnrecorded(bal, poss, order, ticker) ==
    IF ticker = None THEN
        [ order |-> Rejected(order, "Execution error: get_ticker"),
          balance |-> bal, positions |-> poss,
          execution_price |-> None, pnl |-> None ]
    ELSE
    LET price == CalculateExecutionPrice(order.order_type, order.side, Val(ticker), order.price)
    IN
    IF price.raised # None THEN
        [ order |-> Rejected(order, "Execution error: Limit orders require a price"),
          balance |-> bal, positions |-> poss,
          execution_price |-> None, pnl |-> None ]
    ELSE IF price.value * order.quantity > bal THEN
        [ order |-> [order EXCEPT !.status = REJECTED, !.notes = Some("Insufficient balance")],
          balance |-> bal, positions |-> poss,
          execution_price |-> Some(price.value), pnl |-> None ]
    ELSE
    LET filled == [order EXCEPT !.status = FILLED]
        upd == UpdatePositions(bal, poss, filled, price.value)
    IN  [ order |-> IF upd.raised # None
                    THEN Rejected(filled, "Execution error: TypeError")
                    ELSE filled,
          balance |-> upd.balance, positions |-> upd.positions,
          execution_price |-> Some(price.value), pnl |-> upd.pnl ]

\* An execute_order that fills without asking whether the balance covers it.
ExecuteOrderFundsUnchecked(bal, poss, order, ticker) ==
    IF ticker = None THEN
        [ order |-> Rejected(order, "Execution error: get_ticker"),
          balance |-> bal, positions |-> poss,
          execution_price |-> None, pnl |-> None ]
    ELSE
    LET price == CalculateExecutionPrice(order.order_type, order.side, Val(ticker), order.price)
    IN
    IF price.raised # None THEN
        [ order |-> Rejected(order, "Execution error: Limit orders require a price"),
          balance |-> bal, positions |-> poss,
          execution_price |-> None, pnl |-> None ]
    ELSE
    LET filled == [order EXCEPT
                      !.status = FILLED,
                      !.filled_quantity = Some(order.quantity),
                      !.average_fill_price = Some(price.value),
                      !.filled_at = Some("utcnow"),
                      !.exchange_order_id = Some("paper")]
        upd == UpdatePositions(bal, poss, filled, price.value)
    IN  [ order |-> IF upd.raised # None
                    THEN Rejected(filled, "Execution error: TypeError")
                    ELSE filled,
          balance |-> upd.balance, positions |-> upd.positions,
          execution_price |-> Some(price.value), pnl |-> upd.pnl ]

\* execute_order: [order, balance, positions, execution_price, pnl].
ExecuteOrder(bal, poss, order, ticker) ==
    IF ticker = None THEN
        [ order |-> Rejected(order, "Execution error: get_ticker"),
          balance |-> bal, positions |-> poss,
          execution_price |-> None, pnl |-> None ]
    ELSE
    LET price == CalculateExecutionPrice(order.order_type, order.side, Val(ticker), order.price)
    IN
    IF price.raised # None THEN
        [ order |-> Rejected(order, "Execution error: Limit orders require a price"),
          balance |-> bal, positions |-> poss,
          execution_price |-> None, pnl |-> None ]
    ELSE
    LET execution_price == price.value
        position_value == execution_price * order.quantity
    IN
    IF position_value > bal THEN
        [ order |-> [order EXCEPT !.status = REJECTED, !.notes = Some("Insufficient balance")],
          balance |-> bal, positions |-> poss,
          execution_price |-> Some(execution_price), pnl |-> None ]
    ELSE
    LET filled == [order EXCEPT
                      !.status = FILLED,
                      !.filled_quantity = Some(order.quantity),
                      !.average_fill_price = Some(execution_price),
                      !.filled_at = Some("utcnow"),
                      !.exchange_order_id = Some("paper")]
        upd == UpdatePositions(bal, poss, filled, execution_price)
    IN
        [ order |-> IF upd.raised # None
                    THEN Rejected(filled, "Execution error: TypeError")
                    ELSE filled,
          balance |-> upd.balance, positions |-> upd.positions,
          execution_price |-> Some(execution_price), pnl |-> upd.pnl ]

\* update_positions_prices, the body of the try for one position.
RefreshPosition(position, current_price) ==
    [position EXCEPT
        !.current_price = Some(current_price),
        !.unrealized_pnl =
            IF position.side = LONG
            THEN Some((current_price - position.entry_price) * position.quantity)
            ELSE Some((position.entry_price - current_price) * position.quantity)]

\* A refresh that gives up as a whole when one quote fetch fails.
RefreshedPositionsAllOrNothing(poss, tickers) ==
    IF \E symbol \in DOMAIN poss : tickers[symbol] = None
    THEN poss
    ELSE [symbol \in DOMAIN poss |-> RefreshPosition(poss[symbol], Val(tickers[symbol]))]

\* update_positions_prices, the loop: a failed fetch is logged, the loop goes on.
RefreshedPositions(poss, tickers) ==
    [symbol \in DOMAIN poss |->
        IF tickers[symbol] = None
        THEN poss[symbol]
        ELSE RefreshPosition(poss[symbol], Val(tickers[symbol]))]

\* sum(pos.<field> for pos in self.positions.values()): [raised, value];
\* 0 + None raises TypeError
RECURSIVE SumOver(_, _, _)
SumOver(poss, symbols, field) ==
    IF symbols = {} THEN [raised |-> None, value |-> 0]
    ELSE LET symbol == CHOOSE x \in symbols : TRUE
             rest == SumOver(poss, symbols \ {symbol}, field)
         IN  IF poss[symbol][field] = None
             THEN [raised |-> Some("unsupported operand type(s) for +: 'int' and 'NoneType'"),
                   value |-> 0]
             ELSE IF rest.raised # None THEN rest
             ELSE [raised |-> None, value |-> rest.value + Val(poss[symbol][field])]

\* get_total_equity: [raised, value]
TotalEquity(bal, poss) ==
    LET total_pnl == SumOver(poss, DOMAIN poss, "unrealized_pnl")
    IN  IF total_pnl.raised # None THEN total_pnl
        ELSE [raised |-> None, value |-> bal + total_pnl.value]

\* get_total_pnl: [raised, value]
TotalPnl(poss) ==
    LET realized_pnl == SumOver(poss, DOMAIN poss, "realized_pnl")
        unrealized_pnl == SumOver(poss, DOMAIN poss, "unrealized_pnl")
    IN  IF realized_pnl.raised # None THEN realized_pnl
        ELSE IF unrealized_pnl.raised # None THEN unrealized_pnl
        ELSE [raised |-> None, value |-> realized_pnl.value + unrealized_pnl.value]

\* get_statistics: [raised, value]; the money values in cents, roi_percent in
\* hundredths of a percent (the Decimal quotient at the model's resolution),
\* each reported as the float nearest to it
Statistics(bal, poss) ==
    LET total_equity == TotalEquity(bal, poss)
        total_pnl == TotalPnl(poss)
    IN  IF total_equity.raised # None THEN [raised |-> total_equity.raised, value |-> None]
        ELSE IF total_pnl.raised # None THEN [raised |-> total_pnl.raised, value |-> None]
        ELSE [ raised |-> None,
               value |-> Some([ initial_balance |-> Usd(InitialBalance),
                                current_balance |-> bal,
                                total_equity |-> total_equity.value,
                                total_pnl |-> total_pnl.value,
                                roi_percent |->
                                    DecDiv((total_equity.value - Usd(InitialBalance)) * 100,
                                           Usd(InitialBalance) \div 100),
                                open_positions |-> Cardinality(DOMAIN poss) ]) ]

----------------------------------------------------------------------------
(* services/bybit_client.py *)

\* A get_ticker that retries once more than stop_after_attempt allows.
RECURSIVE RetryOnceMore(_, _)
RetryOnceMore(outcomes, attempt) ==
    IF outcomes[attempt] # None
    THEN [attempts |-> attempt, result |-> outcomes[attempt]]
    ELSE IF attempt >= StopAfterAttempt + 1
    THEN [attempts |-> attempt, result |-> None]
    ELSE RetryOnceMore(outcomes, attempt + 1)

\* get_ticker under @retry: the attempt is made; an exception is retried
\* until stop_after_attempt, then RetryError is raised (result None).
RECURSIVE Retry(_, _)
Retry(outcomes, attempt) ==
    IF outcomes[attempt] # None
    THEN [attempts |-> attempt, result |-> outcomes[attempt]]
    ELSE IF attempt >= StopAfterAttempt
    THEN [attempts |-> attempt, result |-> None]
    ELSE Retry(outcomes, attempt + 1)

----------------------------------------------------------------------------
(* repositories/ *)

\* An INSERT that applies no column default.
OrderRepoCreateNoDefaults(order) == order

\* OrderRepository.create: INSERT with the column defaults, then refresh.
OrderRepoCreate(order) ==
    [order EXCEPT
        !.status = IF @ = None THEN PENDING ELSE @,
        !.filled_quantity = IF @ = None THEN Some(0) ELSE @]

\* PositionRepository.get_open_positions
GetOpenPositions(rows) == {i \in 1..Len(rows) : rows[i].is_open}

\* PositionRepository.get_by_symbol: the open rows of the symbol through
\* scalar_one_or_none(): [raised, value]
GetBySymbol(rows, symbol) ==
    LET found == {i \in 1..Len(rows) : rows[i].symbol = symbol /\ rows[i].is_open}
    IN  IF Cardinality(found) > 1
        THEN [raised |-> Some("MultipleResultsFound"), value |-> None]
        ELSE IF found = {} THEN [raised |-> None, value |-> None]
        ELSE [raised |-> None, value |-> Some(CHOOSE i \in found : TRUE)]

\* "if symbol:" / "if status:": None and the empty string add no WHERE clause
Given(filter) == filter # None /\ Val(filter) # ""

\* get_active_orders that leaves the symbol out of the query
ActiveOrdersAnySymbol(rows, symbol) ==
    {i \in 1..Len(rows) : rows[i].status = PENDING}

\* OrderRepository.get_active_orders: the ids of the rows the query selects
ActiveOrders(rows, symbol) ==
    {i \in 1..Len(rows) :
        /\ rows[i].status = PENDING
        /\ Given(symbol) => rows[i].symbol = Val(symbol)}

\* OrderRepository.get_all, the WHERE clauses
Matching(rows, status, symbol) ==
    {i \in 1..Len(rows) :
        /\ Given(status) => rows[i].status = Val(status)
        /\ Given(symbol) => rows[i].symbol = Val(symbol)}

\* ... ORDER BY created_at DESC: rows with equal created_at come in an order
\* the database is free to choose, at each execution of the query
Rankings(rows, ids) ==
    {seq \in Orderings(ids) :
        \A i, j \in 1..Len(seq) : i < j => rows[seq[i]].created_at >= rows[seq[j]].created_at}

\* ... OFFSET skip LIMIT limit
Page(seq, skip, limit) ==
    SubSeq(seq, skip + 1, IF skip + limit < Len(seq) THEN skip + limit ELSE Len(seq))

\* datetime.utcnow() at the INSERT: not before the newest stored created_at
LastTick(rows) == IF rows = << >> THEN 0 ELSE rows[Len(rows)].created_at
Ticks(rows) == {LastTick(rows), LastTick(rows) + 1}

----------------------------------------------------------------------------
(* services/trading_service.py *)

\* "order.price or Decimal('0')"
PriceOrZero(price) == IF price = None THEN 0 ELSE Val(price)

\* quantity * price, in cents
Notional(quantity, price) == quantity * PriceOrZero(price)

\* _validate_order without the position-size rule.
ValidateOrderSizeUnchecked(order, open_positions) ==
    IF Cardinality(open_positions) >= MAX_OPEN_POSITIONS /\ order.side # "sell"
    THEN Some("Max open positions reached")
    ELSE None

\* _validate_order with the cap applied to either side.
ValidateOrderCapAnySide(order, open_positions) ==
    IF Notional(order.quantity, order.price) > Usd(MAX_POSITION_SIZE_USD)
    THEN Some("Position size exceeds max")
    ELSE IF Cardinality(open_positions) >= MAX_OPEN_POSITIONS
    THEN Some("Max open positions reached")
    ELSE None

\* _validate_order: None, or the ValueError it raises.
ValidateOrder(order, open_positions) ==
    IF Notional(order.quantity, order.price) > Usd(MAX_POSITION_SIZE_USD)
    THEN Some("Position size exceeds max")
    ELSE IF Cardinality(open_positions) >= MAX_OPEN_POSITIONS /\ order.side # "sell"
    THEN Some("Max open positions reached")
    ELSE None

\* _execute_live_order; place is place_order's result: the ledger is not touched.
ExecuteLiveOrder(order, place) ==
    IF place = None
    THEN [order EXCEPT !.status = REJECTED, !.notes = Some("Order placement failed")]
    ELSE [order EXCEPT !.exchange_order_id = place, !.status = PENDING]

Before == [ balance |-> balance, positions |-> positions, orders |-> orders,
            positionRows |-> positionRows ]

\* create_order.  ticker is get_ticker's result (read in paper mode only),
\* place is place_order's result (read in live mode only).
CreateOrder(symbol, side, order_type, quantity, price, ticker, place) ==
    LET order == NewOrder(symbol, side, order_type, quantity, price)
        invalid == ValidateOrder(order, GetOpenPositions(positionRows))
        call == [ op |-> "create_order", symbol |-> symbol, side |-> side,
                  order_type |-> order_type, quantity |-> quantity, price |-> price,
                  ticker |-> ticker, place |-> place, before |-> Before ]
    IN
    IF invalid # None THEN
        /\ last' = call @@ [ result |-> "ValueError", error |-> Val(invalid),
                             executed |-> FALSE, order_id |-> 0,
                             execution_price |-> None, pnl |-> None ]
        /\ UNCHANGED <<refreshing, inflight, paper, balance, positions, orders, positionRows>>
    ELSE
        LET created == OrderRepoCreate(order)
            res == IF paper
                   THEN ExecuteOrder(balance, positions, created, ticker)
                   ELSE [ order |-> ExecuteLiveOrder(created, place),
                          balance |-> balance, positions |-> positions,
                          execution_price |-> None, pnl |-> None ]
        IN  /\ orders' = Append(orders, res.order)
            /\ balance' = res.balance
            /\ positions' = res.positions
            /\ last' = call @@ [ result |-> "ok", error |-> "",
                                 executed |-> TRUE, order_id |-> Len(orders) + 1,
                                 execution_price |-> res.execution_price,
                                 pnl |-> res.pnl ]
            /\ UNCHANGED <<refreshing, inflight, paper, positionRows>>

\* cancel_order.  cancelled is the exchange's answer to the cancel request
\* (read in live mode, for an order that has an exchange id).
CancelOrder(order_id, cancelled) ==
    LET call == [ op |-> "cancel_order", order_id |-> order_id, before |-> Before ]
    IN
    IF order_id \notin 1..Len(orders) THEN
        /\ last' = call @@ [ result |-> "ValueError", error |-> "not found", sent |-> FALSE ]
        /\ UNCHANGED <<refreshing, inflight, paper, balance, positions, orders, positionRows>>
    ELSE IF orders[order_id].status # PENDING THEN
        /\ last' = call @@ [ result |-> "ValueError", error |-> "cannot cancel", sent |-> FALSE ]
        /\ UNCHANGED <<refreshing, inflight, paper, balance, positions, orders, positionRows>>
    ELSE IF ~paper /\ orders[order_id].exchange_order_id # None /\ ~cancelled THEN
        \* bybit_client.cancel_order raised: the status is not assigned
        /\ last' = call @@ [ result |-> "Exception", error |-> "Cancel failed", sent |-> TRUE ]
        /\ UNCHANGED <<refreshing, inflight, paper, balance, positions, orders, positionRows>>
    ELSE
        /\ orders' = [orders EXCEPT ![order_id].status = CANCELLED]
        /\ last' = call @@ [ result |-> "ok", error |-> "",
                             sent |-> (~paper /\ orders[order_id].exchange_order_id # None) ]
        /\ UNCHANGED <<refreshing, inflight, paper, balance, positions, positionRows>>

\* OrderRepository.delete: "soft delete by setting status".
OrderRepoDelete(order_id) ==
    LET call == [ op |-> "delete", order_id |-> order_id, before |-> Before ]
    IN
    IF order_id \in 1..Len(orders) THEN
        /\ orders' = [orders EXCEPT ![order_id].status = CANCELLED]
        /\ last' = call @@ [ result |-> TRUE ]
        /\ UNCHANGED <<refreshing, inflight, paper, balance, positions, positionRows>>
    ELSE
        /\ last' = call @@ [ result |-> FALSE ]
        /\ UNCHANGED <<refreshing, inflight, paper, balance, positions, orders, positionRows>>

\* PositionRepository.create: INSERT with is_open defaulting to True.
PositionRepoCreate(symbol) ==
    /\ positionRows' = Append(positionRows,
                              [ symbol |-> symbol, is_open |-> TRUE, closed_at |-> None ])
    /\ last' = [ op |-> "position_create", symbol |-> symbol, before |-> Before ]
    /\ UNCHANGED <<refreshing, inflight, paper, balance, positions, orders>>

\* datetime.utcnow() at a close_position: not earlier than any closed_at stored
LastClose(rows) ==
    LET closed == {i \in 1..Len(rows) : rows[i].closed_at # None}
    IN  IF closed = {} THEN 0
        ELSE CHOOSE t \in {Val(rows[i].closed_at) : i \in closed} :
                \A i \in closed : Val(rows[i].closed_at) <= t
CloseTicks(rows) == {LastClose(rows), LastClose(rows) + 1} \ {0}

\* PositionRepository.close_position (reached by POST /positions/{id}/close);
\* now is datetime.utcnow().  The row is not asked whether it is open.
ClosePosition(position_id, now) ==
    /\ position_id \in 1..Len(positionRows)
    /\ positionRows' = [positionRows EXCEPT ![position_id].is_open = FALSE,
                                            ![position_id].closed_at = Some(now)]
    /\ last' = [ op |-> "close_position", position_id |-> position_id, before |-> Before ]
    /\ UNCHANGED <<refreshing, inflight, paper, balance, positions, orders>>

\* update_positions_prices; tickers is get_ticker's result for each open symbol.
UpdatePositionsPrices(tickers) ==
    /\ positions' = RefreshedPositions(positions, tickers)
    /\ last' = [ op |-> "update_positions_prices", tickers |-> tickers, before |-> Before ]
    /\ UNCHANGED <<refreshing, inflight, paper, balance, orders, positionRows>>

\* OrderRepository.create called with an Order built by the caller, status
\* passed or left to the column default; now is datetime.utcnow() at the INSERT
RepoCreate(symbol, status, now) ==
    LET order == NewOrder(symbol, "buy", "market", Qty(1), None)
        \* the column default applies only where the caller passed no status
        row == IF status = None
               THEN OrderRepoCreate(order)
               ELSE [OrderRepoCreate(order) EXCEPT !.status = Val(status)]
    IN  /\ orders' = Append(orders, row @@ [created_at |-> now])
        /\ last' = [ op |-> "create", order_id |-> Len(orders) + 1, before |-> Before ]
        /\ UNCHANGED <<refreshing, inflight, paper, balance, positions, positionRows>>

\* OrderRepository.update after the caller assigned order.status
RepoUpdate(order_id, status) ==
    /\ order_id \in 1..Len(orders)
    /\ orders' = [orders EXCEPT ![order_id].status = status]
    /\ last' = [ op |-> "update", order_id |-> order_id, before |-> Before ]
    /\ UNCHANGED <<refreshing, inflight, paper, balance, positions, positionRows>>

\* OrderRepository.get_active_orders
GetActiveOrders(symbol) ==
    /\ last' = [ op |-> "get_active_orders", symbol |-> symbol,
                 result |-> ActiveOrders(orders, symbol), before |-> Before ]
    /\ UNCHANGED <<refreshing, inflight, paper, balance, positions, orders, positionRows>>

\* OrderRepository.get_all; previous is the get_all call this one directly
\* follows, when that one had the same limit and filters
GetAll(skip, limit, status, symbol) ==
    /\ \E ranking \in Rankings(orders, Matching(orders, status, symbol)) :
        last' = [ op |-> "get_all", skip |-> skip, limit |-> limit, status |-> status,
                  symbol |-> symbol, result |-> Page(ranking, skip, limit),
                  previous |-> IF /\ last.op = "get_all" /\ last.limit = limit
                                  /\ last.status = status /\ last.symbol = symbol
                               THEN Some([ skip |-> last.skip, limit |-> last.limit,
                                           status |-> last.status, symbol |-> last.symbol,
                                           result |-> last.result ])
                               ELSE None,
                  before |-> Before ]
    /\ UNCHANGED <<refreshing, inflight, paper, balance, positions, orders, positionRows>>

\* _calculate_execution_price, called on its own
CalculatePrice(order_type, side, market_price, limit_price) ==
    /\ last' = [ op |-> "calculate_execution_price", order_type |-> order_type,
                 side |-> side, market_price |-> market_price, limit_price |-> limit_price,
                 result |-> CalculateExecutionPrice(order_type, side, market_price, limit_price),
                 before |-> Before ]
    /\ UNCHANGED <<refreshing, inflight, paper, balance, positions, orders, positionRows>>

\* bybit_client.get_ticker, the call whose result the next paper order reads
GetTicker(symbol, outcomes) ==
    /\ last' = [ op |-> "get_ticker", symbol |-> symbol, outcomes |-> outcomes,
                 attempts |-> Retry(outcomes, 1).attempts,
                 result |-> Retry(outcomes, 1).result, before |-> Before ]
    /\ UNCHANGED <<refreshing, inflight, paper, balance, positions, orders, positionRows>>

\* get_total_equity
GetTotalEquity ==
    /\ last' = [ op |-> "get_total_equity", result |-> TotalEquity(balance, positions),
                 before |-> Before ]
    /\ UNCHANGED <<refreshing, inflight, paper, balance, positions, orders, positionRows>>

\* get_total_pnl
GetTotalPnl ==
    /\ last' = [ op |-> "get_total_pnl", result |-> TotalPnl(positions), before |-> Before ]
    /\ UNCHANGED <<refreshing, inflight, paper, balance, positions, orders, positionRows>>

\* get_statistics
GetStatistics ==
    /\ last' = [ op |-> "get_statistics", result |-> Statistics(balance, positions),
                 before |-> Before ]
    /\ UNCHANGED <<refreshing, inflight, paper, balance, positions, orders, positionRows>>

----------------------------------------------------------------------------
(* create_order as concurrent requests: one step per stretch of code between
   two awaits that suspend (the positions query, the INSERT, the quote fetch,
   the UPDATE) *)

Requests == 1..MaxRequests

NoRequests ==
    [r \in Requests |-> [ pc |-> "idle", order |-> None, order_id |-> 0, seen |-> None,
                          ticker |-> None ]]

Ledger == [ balance |-> balance, positions |-> positions ]

\* The ledger a fill is computed from, had it been read when the quote was requested.
LedgerSeenAtFetch(r) == Val(inflight[r].seen)

\* The ledger a fill is computed from: execute_order reads self.balance and
\* self.positions after get_ticker has returned, and reaches the end of
\* _update_positions without another await that suspends.
LedgerSeenBy(r) == Ledger

\* create_order up to "await self.position_repo.get_open_positions()"
Begin(r, symbol, side, order_type, quantity, price) ==
    LET order == NewOrder(symbol, side, order_type, quantity, price)
    IN  /\ inflight[r].pc = "idle"
        /\ inflight' = [inflight EXCEPT
                ![r].order = Some(order),
                ![r].pc = IF Notional(quantity, price) > Usd(MAX_POSITION_SIZE_USD)
                          THEN "raised" ELSE "validating"]
        /\ last' = [ op |-> "begin", request |-> r, before |-> Before ]
        /\ UNCHANGED <<refreshing, paper, balance, positions, orders, positionRows>>

\* ... the rest of _validate_order, then order_repo.create up to its flush
Validated(r) ==
    LET order == Val(inflight[r].order)
    IN  /\ inflight[r].pc = "validating"
        /\ last' = [ op |-> "validated", request |-> r, before |-> Before ]
        /\ IF ValidateOrder(order, GetOpenPositions(positionRows)) # None
           THEN /\ inflight' = [inflight EXCEPT ![r].pc = "raised"]
                /\ UNCHANGED <<refreshing, paper, balance, positions, orders, positionRows>>
           ELSE /\ orders' = Append(orders, OrderRepoCreate(order))
                /\ inflight' = [inflight EXCEPT
                        ![r].order = Some(OrderRepoCreate(order)),
                        ![r].order_id = Len(orders) + 1,
                        ![r].pc = "creating"]
                /\ UNCHANGED <<refreshing, paper, balance, positions, positionRows>>

\* ... execute_order up to "await bybit_client.get_ticker(order.symbol)"
Created(r) ==
    /\ inflight[r].pc = "creating"
    /\ inflight' = [inflight EXCEPT ![r].pc = "fetching", ![r].seen = Some(Ledger)]
    /\ last' = [ op |-> "created", request |-> r, before |-> Before ]
    /\ UNCHANGED <<refreshing, paper, balance, positions, orders, positionRows>>

\* ... the rest of execute_order, then order_repo.update up to its flush
Fetched(r, ticker) ==
    LET seen == LedgerSeenBy(r)
        res == ExecuteOrder(seen.balance, seen.positions, Val(inflight[r].order), ticker)
    IN  /\ inflight[r].pc = "fetching"
        /\ balance' = res.balance
        /\ positions' = res.positions
        /\ orders' = [orders EXCEPT ![inflight[r].order_id] = res.order]
        /\ inflight' = [inflight EXCEPT ![r].order = Some(res.order), ![r].ticker = ticker,
                                         ![r].pc = "updating"]
        /\ last' = [ op |-> "fetched", request |-> r, ticker |-> ticker, before |-> Before ]
        /\ UNCHANGED <<refreshing, paper, positionRows>>

\* ... create_order returns the order
Updated(r) ==
    /\ inflight[r].pc = "updating"
    /\ inflight' = [inflight EXCEPT ![r].pc = "done"]
    /\ last' = [ op |-> "updated", request |-> r, before |-> Before ]
    /\ UNCHANGED <<refreshing, paper, balance, positions, orders, positionRows>>

\* create_order of request r in paper mode when "await self.order_repo.update(order)"
\* raises: the exception leaves create_order, the endpoint answers 500 and
\* get_db rolls the session back, the INSERT of the order with it.  The
\* engine's ledger is not part of the session.
CreateOrderUpdateFails(r, symbol, side, order_type, quantity, price, ticker) ==
    LET order == NewOrder(symbol, side, order_type, quantity, price)
        res == ExecuteOrder(balance, positions, OrderRepoCreate(order), ticker)
    IN  /\ paper
        /\ inflight[r].pc = "idle"
        /\ ValidateOrder(order, GetOpenPositions(positionRows)) = None
        /\ balance' = res.balance
        /\ positions' = res.positions
        /\ inflight' = [inflight EXCEPT ![r].order = Some(res.order), ![r].ticker = ticker,
                                         ![r].pc = "raised"]
        /\ last' = [ op |-> "create_order", symbol |-> symbol, side |-> side,
                     order_type |-> order_type, quantity |-> quantity, price |-> price,
                     ticker |-> ticker, place |-> None, before |-> Before,
                     result |-> "Exception", error |-> "order_repo.update",
                     executed |-> TRUE, order_id |-> 0,
                     execution_price |-> res.execution_price, pnl |-> res.pnl ]
        /\ UNCHANGED <<refreshing, paper, orders, positionRows>>

----------------------------------------------------------------------------
(* update_positions_prices as a task of its own: one step per stretch of code
   between two awaits of get_ticker *)

NoRefresh == [ pc |-> "idle", keys |-> << >>, used |-> 0, at |-> 0, tickers |-> << >> ]

\* first order that holds a fill on the symbol: the one that inserted its key
FirstFill(rows, symbol) ==
    CHOOSE i \in 1..Len(rows) :
        /\ rows[i].symbol = symbol /\ rows[i].filled_quantity \notin {None, Some(0)}
        /\ \A j \in 1..(i - 1) :
              ~(rows[j].symbol = symbol /\ rows[j].filled_quantity \notin {None, Some(0)})

\* self.positions.items(): the keys in insertion order
RECURSIVE Items(_, _, _)
Items(poss, rows, from) ==
    IF from > Len(rows) THEN << >>
    ELSE IF rows[from].symbol \in DOMAIN poss /\ FirstFill(rows, rows[from].symbol) = from
    THEN <<rows[from].symbol>> \o Items(poss, rows, from + 1)
    ELSE Items(poss, rows, from + 1)

\* the for statement asks the dict iterator for its next item: the iterator
\* compares the dict's size with the size it started with
NextItem(refresh, poss) ==
    IF Cardinality(DOMAIN poss) # refresh.used
    THEN [refresh EXCEPT !.pc = "raised"]     \* RuntimeError: dictionary changed size during iteration
    ELSE IF refresh.at >= Len(refresh.keys)
    THEN [refresh EXCEPT !.pc = "done"]
    ELSE [refresh EXCEPT !.pc = "fetching", !.at = @ + 1]

\* update_positions_prices up to the first "await bybit_client.get_ticker(symbol)"
RefreshBegin ==
    /\ refreshing.pc # "fetching"
    /\ refreshing' = NextItem([ pc |-> "idle", keys |-> Items(positions, orders, 1),
                                used |-> Cardinality(DOMAIN positions), at |-> 0,
                                tickers |-> << >> ],
                              positions)
    /\ last' = [ op |-> "refresh_begin", before |-> Before ]
    /\ UNCHANGED <<inflight, paper, balance, positions, orders, positionRows>>

\* ... the rest of the loop body for the position that was read, then the
\* next item up to its get_ticker, or the end of the loop
RefreshFetched(ticker) ==
    LET symbol == refreshing.keys[refreshing.at]
        poss == IF ticker = None \/ symbol \notin DOMAIN positions
                THEN positions
                ELSE Put(positions, symbol, RefreshPosition(positions[symbol], Val(ticker)))
    IN  /\ refreshing.pc = "fetching"
        /\ positions' = poss
        /\ refreshing' = NextItem([refreshing EXCEPT !.tickers = Append(@, ticker)], poss)
        /\ last' = [ op |-> "refresh_fetched", symbol |-> symbol, ticker |-> ticker,
                     before |-> Before ]
        /\ UNCHANGED <<inflight, paper, balance, orders, positionRows>>

----------------------------------------------------------------------------
(* Specifications *)

Fresh ==
    /\ balance = Usd(InitialBalance)
    /\ positions = NoPositions
    /\ orders = << >>
    /\ positionRows = << >>
    /\ last = [ op |-> "init" ]
    /\ inflight = NoRequests
    /\ refreshing = NoRefresh

\* The service and the order repository, in either mode.
Init == paper \in BOOLEAN /\ Fresh

Next ==
    \/ \E symbol \in Symbols, side \in Sides, kind \in ServiceKinds, quantity \in Quantities,
          ticker \in (IF paper THEN RiskTickers ELSE {None}),
          place \in (IF paper THEN {None} ELSE PlaceResults) :
            /\ Len(orders) < MaxOrders
            /\ CreateOrder(symbol, side, kind[1], quantity, kind[2], ticker, place)
    \/ \E order_id \in 1..(Len(orders) + 1), cancelled \in BOOLEAN :
            CancelOrder(order_id, cancelled)
    \/ \E order_id \in 1..(Len(orders) + 1) :
            OrderRepoDelete(order_id)

Spec == Init /\ [][Next]_vars

\* The engine's ledger: paper mode, every kind of order and quote.
InitPaper == paper = TRUE /\ Fresh

NextLedger ==
    \E symbol \in Symbols, side \in Sides, kind \in OrderKinds, quantity \in Quantities,
       ticker \in Tickers :
        /\ Len(orders) < MaxLedgerOrders
        /\ CreateOrder(symbol, side, kind[1], quantity, kind[2], ticker, None)

SpecLedger == InitPaper /\ [][NextLedger]_vars

\* Risk limits against the engine's ledger: limit orders that the size check
\* passes or refuses by their quantity, on enough symbols to reach the cap.

NextRisk ==
    \E symbol \in RiskSymbols, side \in Sides, kind \in RiskKinds, quantity \in Quantities,
       ticker \in RiskTickers :
        /\ Len(orders) < MaxRiskOrders
        /\ CreateOrder(symbol, side, kind[1], quantity, kind[2], ticker, None)

SpecRisk == InitPaper /\ [][NextRisk]_vars

\* Risk limits against the positions table.
NextStore ==
    \/ \E symbol \in Symbols :
            /\ Len(positionRows) < MaxPositionRows
            /\ PositionRepoCreate(symbol)
    \/ \E position_id \in 1..Len(positionRows), now \in CloseTicks(positionRows) :
            /\ now <= MaxCloseTick
            /\ ClosePosition(position_id, now)
    \/ \E symbol \in Symbols, side \in Sides, kind \in RiskKinds, quantity \in Quantities,
          ticker \in RiskTickers :
            /\ Len(orders) < MaxStoreOrders
            /\ CreateOrder(symbol, side, kind[1], quantity, kind[2], ticker, None)

SpecStore == InitPaper /\ [][NextStore]_vars

\* The execution boundary of create_order: either mode, every kind of order,
\* quotes and placements that succeed or fail.
NextBoundary ==
    \E symbol \in BoundarySymbols, side \in Sides, kind \in OrderKinds, quantity \in Quantities,
       ticker \in (IF paper THEN Tickers ELSE {None}),
       place \in (IF paper THEN {None} ELSE PlaceResults) :
        /\ Len(orders) < MaxBoundaryOrders
        /\ CreateOrder(symbol, side, kind[1], quantity, kind[2], ticker, place)

SpecBoundary == Init /\ [][NextBoundary]_vars

\* The price refresh over the engine's ledger: market orders open LONG and
\* SHORT positions, the refresh reads one quote per open symbol.
NextRefresh ==
    \/ \E symbol \in Symbols, side \in Sides, kind \in MarketKinds, quantity \in Quantities,
          ticker \in RiskTickers :
            /\ Len(orders) < MaxRefreshOrders
            /\ CreateOrder(symbol, side, kind[1], quantity, kind[2], ticker, None)
    \/ \E tickers \in [DOMAIN positions -> Tickers] :
            UpdatePositionsPrices(tickers)

SpecRefresh == InitPaper /\ [][NextRefresh]_vars

\* Concurrent create_order calls for one symbol, interleaved at their awaits.
NextConcurrent ==
    \E r \in Requests :
        \/ \E symbol \in BoundarySymbols, side \in Sides, kind \in ServiceKinds,
              quantity \in Quantities :
                Begin(r, symbol, side, kind[1], quantity, kind[2])
        \/ Validated(r)
        \/ Created(r)
        \/ \E ticker \in RiskTickers : Fetched(r, ticker)
        \/ Updated(r)

SpecConcurrent == InitPaper /\ [][NextConcurrent]_vars

\* The order repository under create, update, cancel and delete, and the
\* query for the active orders.
NextActive ==
    \/ \E symbol \in Symbols, status \in {None, Some(FILLED)}, now \in Ticks(orders) :
            /\ Len(orders) < MaxActiveOrders
            /\ RepoCreate(symbol, status, now)
    \/ \E order_id \in 1..Len(orders) :
            RepoUpdate(order_id, FILLED)
    \/ \E order_id \in 1..(Len(orders) + 1), cancelled \in BOOLEAN :
            CancelOrder(order_id, cancelled)
    \/ \E order_id \in 1..(Len(orders) + 1) :
            OrderRepoDelete(order_id)
    \/ \E symbol \in SymbolFilters :
            GetActiveOrders(symbol)

SpecActive == Init /\ [][NextActive]_vars

\* The order repository and the paged query.
NextPaged ==
    \/ \E symbol \in Symbols, status \in {None, Some(FILLED)}, now \in Ticks(orders) :
            /\ Len(orders) < MaxPagedOrders
            /\ RepoCreate(symbol, status, now)
    \/ \E skip \in Skips, limit \in Limits, status \in StatusFilters,
          symbol \in PageSymbolFilters :
            GetAll(skip, limit, status, symbol)

SpecPaged == InitPaper /\ [][NextPaged]_vars

\* Sequences of fills on one symbol, long enough to add to a position and
\* then reduce it.
NextClose ==
    \E symbol \in BoundarySymbols, side \in Sides, kind \in ServiceKinds,
       quantity \in Quantities, ticker \in RiskTickers :
        /\ Len(orders) < MaxCloseOrders
        /\ CreateOrder(symbol, side, kind[1], quantity, kind[2], ticker, None)

SpecClose == InitPaper /\ [][NextClose]_vars

\* The execution price, as a function and as execute_order applies it to a
\* limit order with the market on either side of the limit.
NextPrice ==
    \/ \E order_type \in OrderTypes, side \in Sides, market_price \in PriceQuotes,
          limit_price \in PriceLimits :
            CalculatePrice(order_type, side, market_price, limit_price)
    \/ \E symbol \in BoundarySymbols, side \in Sides, kind \in ServiceKinds,
          quantity \in Quantities, ticker \in PriceTickers :
            /\ Len(orders) < MaxPriceOrders
            /\ CreateOrder(symbol, side, kind[1], quantity, kind[2], ticker, None)

SpecPrice == InitPaper /\ [][NextPrice]_vars

\* Every operation that runs while positions are held: fills and rejected
\* orders, the price refresh, cancels.
NextFrame ==
    \/ \E symbol \in Symbols, side \in Sides, kind \in MarketKinds, quantity \in Quantities,
          ticker \in (IF paper THEN RiskTickers ELSE {None}),
          place \in (IF paper THEN {None} ELSE PlaceResults) :
            /\ Len(orders) < MaxFrameOrders
            /\ CreateOrder(symbol, side, kind[1], quantity, kind[2], ticker, place)
    \/ \E tickers \in [DOMAIN positions -> Tickers] :
            UpdatePositionsPrices(tickers)
    \/ \E order_id \in 1..(Len(orders) + 1), cancelled \in BOOLEAN :
            CancelOrder(order_id, cancelled)

SpecFrame == Init /\ [][NextFrame]_vars

\* The accounting reads over the engine's ledger.
NextAccounting ==
    \/ \E symbol \in Symbols, side \in Sides, kind \in MarketKinds, quantity \in Quantities,
          ticker \in RiskTickers :
            /\ Len(orders) < MaxAccountingOrders
            /\ CreateOrder(symbol, side, kind[1], quantity, kind[2], ticker, None)
    \/ \E tickers \in [DOMAIN positions -> Tickers] :
            UpdatePositionsPrices(tickers)
    \/ GetTotalEquity
    \/ GetTotalPnl
    \/ GetStatistics

SpecAccounting == InitPaper /\ [][NextAccounting]_vars

\* A price refresh suspended at its quote fetches while orders are processed.
NextInterleaved ==
    \/ \E symbol \in Symbols, side \in Sides, kind \in MarketKinds, quantity \in Quantities,
          ticker \in RiskTickers :
            /\ Len(orders) < MaxInterleavedOrders
            /\ CreateOrder(symbol, side, kind[1], quantity, kind[2], ticker, None)
    \/ RefreshBegin
    \/ \E ticker \in Tickers : RefreshFetched(ticker)

SpecInterleaved == InitPaper /\ [][NextInterleaved]_vars

\* Paper orders whose quote comes from a get_ticker call with retries.
NextRetry ==
    \/ \E symbol \in BoundarySymbols, outcomes \in AttemptOutcomes :
            /\ Len(orders) < MaxRetryOrders
            /\ GetTicker(symbol, outcomes)
    \/ \E side \in Sides, kind \in MarketKinds, quantity \in Quantities :
            /\ last.op = "get_ticker"
            /\ CreateOrder(last.symbol, side, kind[1], quantity, kind[2], last.result, None)

SpecRetry == InitPaper /\ [][NextRetry]_vars

\* Orders on more symbols than MAX_OPEN_POSITIONS.
NextCap ==
    \E symbol \in CapSymbols, side \in Sides, kind \in RiskKinds, ticker \in RiskTickers :
        /\ Len(orders) < MaxCapOrders
        /\ CreateOrder(symbol, side, kind[1], Qty(1), kind[2], ticker, None)

SpecCap == InitPaper /\ [][NextCap]_vars

\* Paper orders whose final UPDATE succeeds or fails.
NextPersist ==
    \E symbol \in BoundarySymbols, side \in Sides, kind \in MarketKinds, quantity \in Quantities,
       ticker \in RiskTickers :
        \/ /\ Len(orders) < MaxPersistOrders
           /\ CreateOrder(symbol, side, kind[1], quantity, kind[2], ticker, None)
        \/ \E r \in Requests :
              CreateOrderUpdateFails(r, symbol, side, kind[1], quantity, kind[2], ticker)

SpecPersist == InitPaper /\ [][NextPersist]_vars

----------------------------------------------------------------------------
(* Claims *)

IsCreate == last.op = "create_order"
Executed == IsCreate /\ last.executed
LastOrder == orders[last.order_id]
PositionBefore == last.before.positions[last.symbol]
HadPosition == last.symbol \in DOMAIN last.before.positions

\* C1: a paper-mode execute_order call that ends with the order REJECTED
\* leaves the balance, the symbol->position map and every position's fields
\* as they were before the call.
C1_RejectedLeavesLedger ==
    (Executed /\ paper /\ LastOrder.status = REJECTED)
        => (balance = last.before.balance /\ positions = last.before.positions)

\* the last call was a create_order above the size limit
Oversized == IsCreate /\ Notional(last.quantity, last.price) > Usd(MAX_POSITION_SIZE_USD)

\* C2: create_order with quantity x (price or 0) above MAX_POSITION_SIZE_USD
\* fails validation before any persistence: no order is stored, the
\* execution path is not invoked, no position is created, the balance is
\* unchanged.
C2_OversizedNeverPersisted ==
    Oversized =>
        /\ last.result = "ValueError"
        /\ ~last.executed
        /\ orders = last.before.orders
        /\ positions = last.before.positions
        /\ positionRows = last.before.positionRows
        /\ balance = last.before.balance

C2_Witness ==
    /\ Oversized
    /\ last.result = "ValueError"
    /\ Len(orders) > 0
    /\ \E i \in 1..Len(orders) : orders[i].symbol = last.symbol

\* C3: once the engine holds MAX_OPEN_POSITIONS open positions, every
\* further create_order with side BUY is rejected by validation: nothing
\* persisted, nothing executed.
C3_CapBlocksBuy ==
    (IsCreate /\ last.side = "buy"
        /\ Cardinality(DOMAIN last.before.positions) >= MAX_OPEN_POSITIONS)
        => (last.result = "ValueError" /\ ~last.executed /\ orders = last.before.orders)

\* the last call was a create_order SELL within the size limit
SellWithinSize ==
    /\ IsCreate
    /\ last.side = "sell"
    /\ Notional(last.quantity, last.price) <= Usd(MAX_POSITION_SIZE_USD)

\* C4: the open-position-count check never rejects a SELL: with any number
\* of open positions, a SELL whose notional passes the size check passes
\* validation.
C4_SellPassesCap == SellWithinSize => (last.result = "ok" /\ last.executed)

C4_Witness ==
    /\ SellWithinSize
    /\ Cardinality(GetOpenPositions(last.before.positionRows)) >= MAX_OPEN_POSITIONS
    /\ last.result = "ok"
    /\ last.order_id = Len(orders)

\* C5: after a filled BUY that adds to a LONG position built by earlier BUY
\* fills, the quantity is the sum of the filled quantities and the entry
\* price is the volume-weighted average
\* (entry*qty + execPrice*order.qty) / (qty + order.qty), qty the quantity
\* before the add.
C5_WeightedAverage ==
    (Executed /\ paper /\ last.side = "buy" /\ LastOrder.status = FILLED
        /\ HadPosition /\ PositionBefore.side = LONG)
        => LET held == PositionBefore
               now == positions[last.symbol]
               execPrice == Val(last.execution_price)
           IN  /\ now.quantity = held.quantity + last.quantity
               /\ now.entry_price =
                      DecDiv(held.entry_price * held.quantity + execPrice * last.quantity,
                             held.quantity + last.quantity)

\* C6: a paper order is rejected for insufficient funds only when it is a
\* BUY whose execPrice x quantity exceeds the balance; in particular a SELL
\* that closes or reduces an existing LONG position is never rejected for
\* insufficient funds, whatever the balance.
C6_SellOfLongNeverInsufficient ==
    (Executed /\ paper /\ last.side = "sell" /\ HadPosition /\ PositionBefore.side = LONG)
        => LastOrder.notes # Some("Insufficient balance")

\* the MARKET execution price of a quote
MarketPrice(side, quote) == CalculateExecutionPrice("market", side, quote, None).value

\* the last two orders: a filled MARKET BUY that opened the position, then a
\* MARKET SELL of the same quantity at the same quote
RoundTrip ==
    /\ Executed /\ paper
    /\ last.order_id = Len(orders) /\ Len(orders) >= 2
    /\ last.side = "sell" /\ last.order_type = "market" /\ last.ticker # None
    /\ LET buy == orders[Len(orders) - 1]
       IN  /\ buy.symbol = last.symbol /\ buy.side = "buy" /\ buy.order_type = "market"
           /\ buy.status = FILLED /\ buy.quantity = last.quantity
           /\ buy.average_fill_price = Some(MarketPrice("buy", Val(last.ticker)))
    \* the BUY opened the position: it holds q, bought at the BUY's price
    /\ HadPosition /\ PositionBefore.quantity = last.quantity
    /\ PositionBefore.entry_price = MarketPrice("buy", Val(last.ticker))

\* C7: round trip.  With no position on S, a filled MARKET BUY of q followed
\* by a MARKET SELL of q at the same quote p leaves no open position on S and
\* the pre-trade balance minus (p*1.0005 - p*0.9995) * q.
C7_RoundTrip ==
    RoundTrip =>
        LET q == last.quantity
            bought == MarketPrice("buy", Val(last.ticker))
            sold == MarketPrice("sell", Val(last.ticker))
            preTrade == last.before.balance + bought * q
        IN  /\ last.symbol \notin DOMAIN positions
            /\ balance = preTrade - (bought - sold) * q

\* the two steps of the BTCUSDT scenario and the state after the first
ScenarioBuy ==
    /\ Executed /\ paper /\ Len(orders) = 1
    /\ last.before.balance = Usd(10000) /\ last.before.positions = NoPositions
    /\ last.symbol = "BTCUSDT" /\ last.side = "buy" /\ last.order_type = "market"
    /\ last.quantity = Qty(1) /\ last.ticker = Some(Px(50000))

ScenarioBuyDone ==
    /\ LastOrder.status = FILLED
    /\ LastOrder.average_fill_price = Some(500250)
    /\ balance = 499750
    /\ DOMAIN positions = {"BTCUSDT"}
    /\ positions["BTCUSDT"].side = LONG
    /\ positions["BTCUSDT"].quantity = Qty(1)
    /\ positions["BTCUSDT"].entry_price = 500250

ScenarioSell ==
    /\ Executed /\ paper /\ Len(orders) = 2
    /\ last.symbol = "BTCUSDT" /\ last.side = "sell" /\ last.order_type = "market"
    /\ last.quantity = Qty(1) /\ last.ticker = Some(Px(51000))
    /\ last.before.balance = 499750
    /\ DOMAIN last.before.positions = {"BTCUSDT"}
    /\ PositionBefore.side = LONG
    /\ PositionBefore.quantity = Qty(1)
    /\ PositionBefore.entry_price = 500250

\* C8: scenario.  Balance 10000, no positions: MARKET BUY 0.1 BTCUSDT at
\* quote 50000 is FILLED at 50025.00, balance 4997.50, one LONG position of
\* 0.1 at entry 50025.00; then MARKET SELL 0.1 at quote 51000 is FILLED at
\* 50974.50, books realized_pnl 94.95, balance 10094.95, no open positions.
C8_Scenario ==
    /\ ScenarioBuy => ScenarioBuyDone
    /\ ScenarioSell =>
        /\ LastOrder.status = FILLED
        /\ LastOrder.average_fill_price = Some(509745)
        /\ last.pnl = Some(9495)
        /\ balance = 1009495
        /\ positions = NoPositions

\* C9: for equal quantity, entry price and closing price, the realized P&L
\* booked when closing a SHORT is the negative of the one booked when
\* closing a LONG: (entry - exec) x qty where the LONG has (exec - entry) x qty.
C9_ShortPnlMirrorsLong ==
    (Executed /\ paper /\ last.pnl # None /\ HadPosition)
        => LET held == PositionBefore
               closed == IF last.quantity >= held.quantity
                         THEN held.quantity ELSE last.quantity
               long == (Val(last.execution_price) - held.entry_price) * closed
           IN  Val(last.pnl) = IF held.side = LONG THEN long ELSE -long

\* C10: order status is one-shot: an order becomes CANCELLED only from
\* PENDING, and no operation of the service or of the order repository
\* changes the status of an order that is FILLED, PARTIALLY_FILLED,
\* REJECTED, CANCELLED or EXPIRED.
C10_StatusOneShot ==
    [][\A i \in 1..Len(orders) :
          /\ orders[i].status \in TerminalStatuses => orders'[i].status = orders[i].status
          /\ (orders'[i].status = CANCELLED /\ orders[i].status # CANCELLED)
                => orders[i].status = PENDING]_vars

IsCancel == last.op = "cancel_order"
CancelKnown == last.order_id \in 1..Len(last.before.orders)
CancelPending == CancelKnown /\ last.before.orders[last.order_id].status = PENDING
LedgerAsBefore ==
    /\ balance = last.before.balance
    /\ positions = last.before.positions
    /\ positionRows = last.before.positionRows

\* C11: cancel_order succeeds exactly when the order id exists and the
\* order's status is PENDING; an unknown id fails with the not-found error,
\* any other status with the invalid-state error, and in both failure cases
\* every order's status and the ledger are unchanged and no cancel request
\* is sent to the exchange.
C11_CancelExactlyPending ==
    IsCancel =>
        /\ (last.result = "ok") <=> CancelPending
        /\ ~CancelKnown => (last.result = "ValueError" /\ last.error = "not found")
        /\ (CancelKnown /\ ~CancelPending)
                => (last.result = "ValueError" /\ last.error = "cannot cancel")
        /\ ~CancelPending => (orders = last.before.orders /\ LedgerAsBefore /\ ~last.sent)

\* C12: in live mode, cancel_order on a PENDING order forwards a cancel
\* request to the exchange and ends with the order CANCELLED and persisted,
\* whether or not the exchange confirms, also when its cancel call fails.
C12_LiveCancelFireAndForget ==
    (IsCancel /\ ~paper /\ CancelPending)
        => /\ last.sent
           /\ last.result = "ok"
           /\ orders[last.order_id].status = CANCELLED
\* what failed inside the execution path of the last create_order
QuoteFailed == paper /\ last.ticker = None
PriceFailed ==
    /\ paper /\ last.ticker # None
    /\ CalculateExecutionPrice(last.order_type, last.side, Val(last.ticker), last.price).raised # None
FillFailed ==
    /\ paper /\ last.execution_price # None
    /\ Val(last.execution_price) * last.quantity <= last.before.balance
    /\ UpdatePositions(last.before.balance, last.before.positions,
                       [symbol |-> last.symbol, side |-> last.side, quantity |-> last.quantity],
                       Val(last.execution_price)).raised # None
PlaceFailed == ~paper /\ last.place = None

IsRefresh == last.op = "update_positions_prices"

\* C14: in update_positions_prices a quote-fetch failure for one symbol does
\* not abort the refresh: every other open position whose fetch succeeds
\* gets current_price and unrealized_pnl updated in the same call, and the
\* position whose fetch failed keeps all its fields.
C14_RefreshPartialFailure ==
    IsRefresh =>
        /\ DOMAIN positions = DOMAIN last.before.positions
        /\ \A symbol \in DOMAIN positions :
            LET held == last.before.positions[symbol]
                now == positions[symbol]
                quote == last.tickers[symbol]
            IN  IF quote = None
                THEN now = held
                ELSE /\ now.current_price = quote
                     /\ now.unrealized_pnl =
                            Some(IF held.side = LONG
                                 THEN (Val(quote) - held.entry_price) * held.quantity
                                 ELSE (held.entry_price - Val(quote)) * held.quantity)
                     /\ now = [held EXCEPT !.current_price = now.current_price,
                                           !.unrealized_pnl = now.unrealized_pnl]

C14_Witness ==
    /\ IsRefresh
    /\ \E failed, fetched \in DOMAIN positions :
        /\ last.tickers[failed] = None
        /\ positions[failed] = last.before.positions[failed]
        /\ last.tickers[fetched] # None
        /\ positions[fetched].current_price = last.tickers[fetched]
        /\ positions[fetched].current_price # last.before.positions[fetched].current_price
        /\ positions[fetched].side = SHORT
\* the ledger's positions are keyed by their own symbol, with positive quantity
LedgerWellFormed ==
    \A symbol \in DOMAIN positions :
        /\ positions[symbol].symbol = symbol
        /\ positions[symbol].quantity > 0

\* the last call was a SELL that reached the fill with a quantity covering
\* the whole position held on its symbol
FullCloseFill ==
    /\ Executed /\ paper /\ last.side = "sell"
    /\ HadPosition /\ last.quantity >= PositionBefore.quantity
    /\ last.execution_price # None
    /\ Val(last.execution_price) * last.quantity <= last.before.balance

\* C15: in every reachable state of the engine's ledger there is at most one
\* open position per symbol, every position in the ledger has quantity > 0,
\* and a position that was fully closed is no longer in the open-position
\* set.
C15_LedgerPositions ==
    /\ LedgerWellFormed
    /\ FullCloseFill => last.symbol \notin DOMAIN positions
\* the requests whose fill computation has run
Filled == {r \in Requests : inflight[r].pc \in {"updating", "done"}}
\* the ledger after the requests of seq[from..] are executed one after another
RECURSIVE OneAfterAnother(_, _, _)
OneAfterAnother(ledger, seq, from) ==
    IF from > Len(seq) THEN ledger
    ELSE LET order == Val(inflight[seq[from]].order)
             res == ExecuteOrder(ledger.balance, ledger.positions, order,
                                 inflight[seq[from]].ticker)
         IN  OneAfterAnother([balance |-> res.balance, positions |-> res.positions],
                             seq, from + 1)

\* C16: when create_order calls for the same symbol run concurrently and
\* interleave at their suspension points, the resulting balance and position
\* equal the result of applying the same fills one after another in some
\* order: no fill's ledger update is lost or applied to a stale position.
C16_ConcurrentFillsSerialize ==
    \E seq \in Orderings(Filled) :
        OneAfterAnother([balance |-> Usd(InitialBalance), positions |-> NoPositions], seq, 1)
            = Ledger

C16_Witness ==
    /\ last.op = "fetched"
    /\ Filled = Requests
    /\ \A r \in Requests : Val(inflight[r].order).status = FILLED
    \* the other request's fill ran while this one was waiting for its quote
    /\ Val(inflight[last.request].seen)
            # [balance |-> last.before.balance, positions |-> last.before.positions]
\* the requests whose order_repo.create has returned
Stored == {r \in Requests : inflight[r].order_id # 0}

\* C17: OrderRepository.create stores the order with a non-null id that
\* differs from every other stored order's id, and an order created without
\* an explicit status is stored with status PENDING.
C17_CreateAssignsIdAndPending ==
    /\ \A r \in Stored :
        /\ inflight[r].order_id \in 1..Len(orders)
        /\ \A other \in Stored \ {r} : inflight[other].order_id # inflight[r].order_id
    /\ \A r \in Requests :
        inflight[r].pc = "creating"
            => /\ orders[inflight[r].order_id].status = PENDING
               /\ Val(inflight[r].order).status = PENDING

C17_Witness ==
    /\ \A r \in Requests : inflight[r].pc = "creating"
    /\ {inflight[r].order_id : r \in Requests} = 1..MaxRequests
    /\ \A i \in 1..Len(orders) : orders[i].status = PENDING
\* C18: get_active_orders returns exactly the stored orders whose status is
\* PENDING, restricted to the given symbol when one is passed: after any
\* sequence of create, update, cancel and delete no order in another status
\* is returned and no PENDING order is omitted.
C18_ActiveOrdersExact ==
    last.op = "get_active_orders" =>
        \A i \in 1..Len(orders) :
            i \in last.result <=>
                /\ orders[i].status = PENDING
                /\ (last.symbol # None /\ Val(last.symbol) \in Symbols)
                        => orders[i].symbol = Val(last.symbol)

C18_Witness ==
    /\ last.op = "get_active_orders"
    /\ last.symbol = Some("BTCUSDT")
    /\ \E i, j \in 1..Len(orders) :
        /\ last.result = {i}
        /\ orders[i].status = PENDING /\ orders[i].symbol = "BTCUSDT"
        /\ orders[j].status = CANCELLED /\ orders[j].symbol = "BTCUSDT"
IsGetAll == last.op = "get_all"
Returned(result) == {result[i] : i \in 1..Len(result)}

\* the number of orders get_all returns is min(limit, max(0, n - skip))
PageLength ==
    IsGetAll =>
        LET n == Cardinality(Matching(orders, last.status, last.symbol))
            rest == IF n - last.skip > 0 THEN n - last.skip ELSE 0
        IN  Len(last.result) = IF last.limit < rest THEN last.limit ELSE rest

\* the last two calls were get_all with the same limit and filters and skip
\* ranges that do not overlap
TwoPages ==
    /\ IsGetAll /\ last.previous # None
    /\ \/ Val(last.previous).skip + last.limit <= last.skip
       \/ last.skip + last.limit <= Val(last.previous).skip

\* C19: with n stored orders matching the filters, get_all(skip, limit)
\* returns exactly min(limit, max(0, n - skip)) orders, and two calls with
\* the same limit and non-overlapping skip ranges return disjoint sets of
\* orders when no order is created in between.
C19_PagesCountedAndDisjoint ==
    /\ PageLength
    /\ TwoPages => Returned(last.result) \cap Returned(Val(last.previous).result) = {}
\* C20: full close.  When a SELL that reaches the fill meets an existing
\* LONG position with order.quantity >= position.quantity, the order is
\* FILLED, realized P&L grows by (execPrice - entry_price) x position.quantity,
\* the balance is credited by execPrice x position.quantity (not by the order
\* quantity), the position leaves the open-position set, and the excess
\* order quantity opens no SHORT position.
C20_FullClose ==
    (FullCloseFill /\ PositionBefore.side = LONG)
        => LET held == PositionBefore
               execPrice == Val(last.execution_price)
           IN  /\ LastOrder.status = FILLED
               /\ last.pnl = Some((execPrice - held.entry_price) * held.quantity)
               /\ balance = last.before.balance + execPrice * held.quantity
               /\ last.symbol \notin DOMAIN positions
\* the last call was a SELL that reached the fill with a quantity below the
\* one held on its symbol
PartialCloseFill ==
    /\ Executed /\ paper /\ last.side = "sell"
    /\ HadPosition /\ last.quantity < PositionBefore.quantity
    /\ last.execution_price # None
    /\ Val(last.execution_price) * last.quantity <= last.before.balance

\* realized_pnl as a number, 0 where the position carries none yet
RealizedOf(position) == IF position.realized_pnl = None THEN 0 ELSE Val(position.realized_pnl)

\* C21: partial close.  When a SELL that reaches the fill meets an existing
\* LONG position with order.quantity < position.quantity, the order is
\* FILLED, the position's quantity decreases by order.quantity, realized_pnl
\* increases by (execPrice - entry_price) x order.quantity, the balance is
\* credited by execPrice x order.quantity, entry_price is unchanged and the
\* position stays open in the ledger.
C21_PartialClose ==
    (PartialCloseFill /\ PositionBefore.side = LONG)
        => LET held == PositionBefore
               execPrice == Val(last.execution_price)
           IN  /\ LastOrder.status = FILLED
               /\ last.symbol \in DOMAIN positions
               /\ positions[last.symbol].quantity = held.quantity - last.quantity
               /\ positions[last.symbol].entry_price = held.entry_price
               /\ positions[last.symbol].realized_pnl =
                      Some(RealizedOf(held) + (execPrice - held.entry_price) * last.quantity)
               /\ balance = last.before.balance + execPrice * last.quantity
\* the last call reached the fill on a symbol that held a SHORT position
FillOnShort ==
    /\ Executed /\ paper /\ HadPosition
    /\ last.execution_price # None
    /\ Val(last.execution_price) * last.quantity <= last.before.balance
    /\ PositionBefore.side = SHORT

\* C22: a filled BUY against an existing SHORT position mirrors a SELL
\* against a LONG: it reduces the SHORT when order.quantity <
\* position.quantity and closes and removes it when order.quantity >=
\* position.quantity, booking realized P&L with inverted sign; it never
\* increases the SHORT's quantity, and a SELL against an existing SHORT never
\* reduces or closes it.
C22_BuyAgainstShort ==
    FillOnShort =>
        LET held == PositionBefore
            execPrice == Val(last.execution_price)
            closed == IF last.quantity >= held.quantity THEN held.quantity ELSE last.quantity
        IN  IF last.side = "buy"
            THEN /\ last.pnl = Some((held.entry_price - execPrice) * closed)
                 /\ IF last.quantity >= held.quantity
                    THEN last.symbol \notin DOMAIN positions
                    ELSE /\ last.symbol \in DOMAIN positions
                         /\ positions[last.symbol].quantity = held.quantity - last.quantity
            ELSE /\ last.symbol \in DOMAIN positions
                 /\ positions[last.symbol].quantity >= held.quantity
\* the last call filled an order on a symbol that held no position
OpeningFill == Executed /\ paper /\ ~HadPosition /\ LastOrder.status = FILLED

\* C23: a filled order for a symbol with no open position opens exactly one
\* new position with quantity = order.quantity and entry_price = execPrice:
\* a BUY opens a LONG and debits the balance by execPrice x quantity, a SELL
\* opens a SHORT and credits it by execPrice x quantity; the positions of
\* other symbols are unchanged.
C23_OpenNewPosition ==
    OpeningFill =>
        LET execPrice == Val(last.execution_price)
        IN  /\ DOMAIN positions = DOMAIN last.before.positions \cup {last.symbol}
            /\ positions[last.symbol].symbol = last.symbol
            /\ positions[last.symbol].quantity = last.quantity
            /\ positions[last.symbol].entry_price = execPrice
            /\ IF last.side = "buy"
               THEN /\ positions[last.symbol].side = LONG
                    /\ balance = last.before.balance - execPrice * last.quantity
               ELSE /\ positions[last.symbol].side = SHORT
                    /\ balance = last.before.balance + execPrice * last.quantity
            /\ \A other \in DOMAIN last.before.positions :
                    positions[other] = last.before.positions[other]

C23_Witness ==
    /\ OpeningFill
    /\ last.side = "sell"
    /\ positions[last.symbol].side = SHORT
    /\ \E other \in DOMAIN last.before.positions :
            other # last.symbol /\ positions[other].side = LONG
Least(a, b) == IF a <= b THEN a ELSE b
Greatest(a, b) == IF a >= b THEN a ELSE b

\* the price the execution-price rules give: market x 1.0005 or x 0.9995 is
\* stated as value x 2000 = market x 2001 or x 1999
PriceAsSpecified(order_type, side, market_price, limit_price, value) ==
    /\ (order_type = "market" /\ side = "buy") => value * 2000 = market_price * 2001
    /\ (order_type = "market" /\ side = "sell") => value * 2000 = market_price * 1999
    /\ (order_type = "limit" /\ limit_price # None /\ side = "buy")
            => value = Least(Val(limit_price), market_price)
    /\ (order_type = "limit" /\ limit_price # None /\ side = "sell")
            => value = Greatest(Val(limit_price), market_price)

C25_FilledOrderFields ==
    /\ \A i \in 1..Len(orders) :
        /\ orders[i].filled_quantity # None
        /\ Val(orders[i].filled_quantity) <= orders[i].quantity
        /\ (paper /\ orders[i].status = FILLED)
            => /\ orders[i].filled_quantity = Some(orders[i].quantity)
               /\ orders[i].average_fill_price # None
               /\ orders[i].filled_at # None
               /\ orders[i].exchange_order_id = Some("paper")
    /\ (Executed /\ paper /\ LastOrder.status = FILLED)
        => /\ last.execution_price # None
           /\ LastOrder.average_fill_price = last.execution_price
           /\ PriceAsSpecified(last.order_type, last.side, Val(last.ticker), last.price,
                               Val(LastOrder.average_fill_price))

C25_Witness ==
    /\ Executed /\ paper /\ Len(orders) = 2
    /\ LastOrder.status = FILLED
    /\ LastOrder.filled_quantity = Some(Qty(2))
    /\ LastOrder.average_fill_price = last.execution_price
    /\ orders[1].status = REJECTED
\* unrealized_pnl as recomputed from the position's current fields
Recomputed(position) ==
    IF position.side = LONG
    THEN (Val(position.current_price) - position.entry_price) * position.quantity
    ELSE (position.entry_price - Val(position.current_price)) * position.quantity

\* the last call refreshed the price of the position on symbol, or was a fill
\* that changed a position whose unrealized_pnl had been computed before
Touched(symbol) ==
    \/ IsRefresh /\ last.tickers[symbol] # None
    \/ /\ Executed /\ paper /\ last.symbol = symbol /\ HadPosition
       /\ PositionBefore.unrealized_pnl # None
       /\ positions[symbol] # PositionBefore

\* C26: unrealized_pnl is never adjusted incrementally but always recomputed:
\* after a price refresh or any ledger mutation (add to position, partial
\* close) each open position's unrealized_pnl equals (current_price -
\* entry_price) x quantity for LONG and (entry_price - current_price) x
\* quantity for SHORT, computed from the position's current fields.
C26_UnrealizedRecomputed ==
    \A symbol \in DOMAIN positions :
        Touched(symbol) => positions[symbol].unrealized_pnl = Some(Recomputed(positions[symbol]))
\* the positions held before and after the last call
Kept == IF last.op = "init" THEN {} ELSE DOMAIN positions \cap DOMAIN last.before.positions

\* C27: a position's realized_pnl changes only in a step that reduces the
\* position's quantity or closes it: opening a position, adding to a
\* position, a price refresh, a rejected order and a cancel all leave every
\* position's realized_pnl unchanged.
C27_RealizedPnlFrame ==
    \A symbol \in Kept :
        positions[symbol].realized_pnl # last.before.positions[symbol].realized_pnl
            => positions[symbol].quantity < last.before.positions[symbol].quantity

C27_Witness ==
    /\ Executed /\ paper /\ last.side = "buy" /\ LastOrder.status = FILLED
    /\ HadPosition
    /\ positions[last.symbol].quantity > PositionBefore.quantity
    /\ positions[last.symbol].current_price # Some(positions[last.symbol].entry_price)
    /\ positions[last.symbol].realized_pnl = PositionBefore.realized_pnl
\* C28: every position the engine opens starts with realized_pnl = 0 and
\* unrealized_pnl = 0, defined decimal values and not unset, so that the
\* first close can add to realized_pnl and equity and total P&L can be summed
\* right after the position is opened.
C28_PnlStartsAtZero ==
    OpeningFill =>
        /\ positions[last.symbol].realized_pnl = Some(0)
        /\ positions[last.symbol].unrealized_pnl = Some(0)
\* the sum of a P&L field over the open positions, an unset value counted as 0
RECURSIVE SumOfField(_, _)
SumOfField(symbols, field) ==
    IF symbols = {} THEN 0
    ELSE LET symbol == CHOOSE x \in symbols : TRUE
             amount == IF positions[symbol][field] = None THEN 0
                       ELSE Val(positions[symbol][field])
         IN  amount + SumOfField(symbols \ {symbol}, field)

Equity == balance + SumOfField(DOMAIN positions, "unrealized_pnl")

\* C29: the accounting reads are pure and consistent with the ledger in
\* every reachable state: get_total_equity returns balance + the sum of
\* unrealized_pnl over the open positions, get_statistics reports
\* open_positions equal to the number of positions in the ledger and roi =
\* (equity - initial_balance) / initial_balance x 100, and neither call
\* changes balance, initial_balance or any position.
C29_AccountingReads ==
    /\ last.op = "get_total_equity" =>
        /\ last.result.raised = None
        /\ last.result.value = Equity
        /\ balance = last.before.balance /\ positions = last.before.positions
    /\ last.op = "get_statistics" =>
        /\ last.result.raised = None
        /\ Val(last.result.value).open_positions = Cardinality(DOMAIN positions)
        /\ Val(last.result.value).total_equity = Equity
        /\ Val(last.result.value).roi_percent =
                DecDiv((Equity - Usd(InitialBalance)) * 100, Usd(InitialBalance) \div 100)
        /\ Val(last.result.value).initial_balance = Usd(InitialBalance)
        /\ balance = last.before.balance /\ positions = last.before.positions
\* C30: in the position store a second open position for a symbol that
\* already has one is forbidden: after any sequence of
\* PositionRepository.create and close_position calls at most one stored
\* position per symbol has is_open = true, so get_by_symbol never finds more
\* than one.
C30_OneOpenPositionPerSymbol ==
    \A symbol \in Symbols :
        /\ Cardinality({i \in GetOpenPositions(positionRows) :
                            positionRows[i].symbol = symbol}) <= 1
        /\ GetBySymbol(positionRows, symbol).raised = None
\* C31: once a position is closed (is_open = false) none of its fields
\* changes again: not by a later order on the same symbol, not by a price
\* refresh, and not by a repeated PositionRepository.close_position on the
\* same id.
C31_ClosedPositionImmutable ==
    [][\A position_id \in 1..Len(positionRows) :
            ~positionRows[position_id].is_open =>
                positionRows'[position_id] = positionRows[position_id]]_vars
\* C32: update_positions_prices is safe to run concurrently with order
\* processing: when it is suspended at a quote fetch and an execute_order call
\* opens a new position or closes an existing one, the refresh still
\* completes without error, and every position that stays open during the
\* whole refresh has its current_price and unrealized_pnl updated.
C32_RefreshConcurrentlySafe ==
    /\ refreshing.pc # "raised"
    /\ (last.op = "refresh_fetched" /\ refreshing.pc = "done") =>
            \A k \in 1..Len(refreshing.keys) :
                refreshing.tickers[k] # None =>
                    /\ positions[refreshing.keys[k]].current_price = refreshing.tickers[k]
                    /\ positions[refreshing.keys[k]].unrealized_pnl # None
IsGetTicker == last.op = "get_ticker"
EveryAttemptFailed == \A k \in 1..StopAfterAttempt : last.outcomes[k] = None

\* C33: a quote fetch is attempted at most 3 times per get_ticker call; when
\* every attempt fails, the paper execute_order call that issued it
\* terminates with the order REJECTED (it does not stay PENDING), and the
\* retries never repeat a ledger mutation.
C33_BoundedRetry ==
    /\ IsGetTicker =>
        /\ last.attempts \in 1..3
        /\ EveryAttemptFailed <=> last.result = None
        /\ EveryAttemptFailed => last.attempts = 3
        /\ LedgerAsBefore
    /\ (IsCreate /\ Executed /\ QuoteFailed) =>
        /\ LastOrder.status = REJECTED
        /\ LastOrder.filled_quantity = Some(0)
        /\ LedgerAsBefore

C33_Witness ==
    /\ IsCreate /\ Executed /\ QuoteFailed
    /\ Len(orders) = 2 /\ orders[1].status = FILLED
    /\ positions # NoPositions
    /\ LastOrder.status = REJECTED
\* C34: with a non-negative initial balance, positive quotes and positive
\* order quantities the engine's balance is never negative, also when
\* several execute_order calls interleave at their quote fetch: the funds
\* check and the debit are not separated by a suspension.
C34_BalanceNeverNegative == balance >= 0

\* two BUY requests both suspended at the quote fetch with the initial balance
\* in sight; the first to resume is filled, the second is refused
C34_Witness ==
    /\ \A r \in Requests :
          /\ inflight[r].pc \in {"updating", "done"}
          /\ inflight[r].seen = Some([balance |-> Usd(InitialBalance), positions |-> NoPositions])
          /\ Val(inflight[r].order).side = "buy"
    /\ \E i, j \in 1..Len(orders) :
          /\ orders[i].status = FILLED
          /\ orders[j].status = REJECTED /\ orders[j].notes = Some("Insufficient balance")
    /\ balance >= 0 /\ balance < Usd(InitialBalance)
\* C35: every order whose status is REJECTED carries no fill:
\* filled_quantity = 0, and average_fill_price, filled_at and
\* exchange_order_id are unset; an order is never first marked FILLED with
\* fill details and then returned as REJECTED.
C35_RejectedCarriesNoFill ==
    \A i \in 1..Len(orders) :
        orders[i].status = REJECTED =>
            /\ orders[i].filled_quantity = Some(0)
            /\ orders[i].average_fill_price = None
            /\ orders[i].filled_at = None
            /\ orders[i].exchange_order_id = None
\* C36: the number of open positions in the engine's ledger never exceeds
\* MAX_OPEN_POSITIONS after any sequence of create_order calls, including BUY
\* and SELL orders on new symbols.
C36_LedgerWithinCap == Cardinality(DOMAIN positions) <= MAX_OPEN_POSITIONS
\* C37: no order reaches status FILLED with an executed notional
\* (average_fill_price x filled_quantity) greater than MAX_POSITION_SIZE_USD,
\* for every order type including MARKET orders submitted without a price.
C37_FilledNotionalWithinSize ==
    \A i \in 1..Len(orders) :
        orders[i].status = FILLED =>
            Val(orders[i].average_fill_price) * Val(orders[i].filled_quantity)
                <= Usd(MAX_POSITION_SIZE_USD)
\* the realized P&L that the fills so far computed, the orders replayed in
\* the order of their execution
RECURSIVE RealizedBooked(_, _, _)
RealizedBooked(rows, from, poss) ==
    IF from > Len(rows) THEN 0
    ELSE IF rows[from].filled_quantity \in {None, Some(0)}
    THEN RealizedBooked(rows, from + 1, poss)
    ELSE LET upd == UpdatePositions(0, poss, rows[from], Val(rows[from].average_fill_price))
         IN  (IF upd.pnl = None THEN 0 ELSE Val(upd.pnl))
                + RealizedBooked(rows, from + 1, upd.positions)

\* C38: realized P&L is not lost when a position is closed: after any
\* sequence of fills get_total_pnl returns the sum of all realized P&L booked
\* so far (including that of fully closed positions) plus the unrealized P&L
\* of the open positions.
C38_TotalPnlKeepsRealized ==
    last.op = "get_total_pnl" =>
        /\ last.result.raised = None
        /\ last.result.value = RealizedBooked(orders, 1, NoPositions)
                                + SumOfField(DOMAIN positions, "unrealized_pnl")
\* C39: in paper mode every change to the engine's balance or positions
\* corresponds to an order that is persisted with status FILLED: if
\* persisting the final status fails after the fill (order_repo.update
\* raises, the request's session is rolled back), the ledger does not keep a
\* fill for an order that is not stored as FILLED.
C39_LedgerFollowsPersistedFills ==
    (IsCreate /\ last.result = "Exception") =>
        /\ balance = last.before.balance
        /\ positions = last.before.positions

====
